---- MODULE Spec2Model ----
(***************************************************************************)
(* A model of the WhatsApp persona chatbot: the transcript parser          *)
(* (chat cleaner.py), the phrase-frequency analysis and the response       *)
(* selector (context_chatbot.py).                                          *)
(*                                                                         *)
(* Python strings are modelled as sequences of one-character strings, so   *)
(* that strip, split, lower and the substring test are computed and not    *)
(* assumed.  Python's None is a value that is no character sequence.       *)
(***************************************************************************)
EXTENDS Integers, Sequences, FiniteSets, TLC

VARIABLES
    \* ---- parse_whatsapp_chat ----
    lines,               \* file.readlines()
    person_of_interest,  \* the target speaker
    line_no,             \* index of the next line the for loop reads
    conversations,       \* the list of pairs being built
    last_message,        \* carried across lines
    last_sender,         \* carried across lines
    message_count,       \* lines that split into timestamp/sender/message
    parse_pc,            \* "loop" while iterating, "returned" after return
    \* ---- ImprovedMemoryChatbot ----
    conversation_file,   \* the JSON list of pairs that __init__ loads
    chroma_db,           \* the persisted index in ./chroma_db, NoDb if none
    bot_pc,              \* where the chatbot is: see the actions
    self_conversations,  \* self.conversations
    contexts,            \* self.contexts
    responses,           \* self.responses
    texts,               \* self.texts (set by a fresh build only)
    common_phrases,      \* self.common_phrases, the formatted list
    top_phrases,         \* the list common_phrases[:30] that is formatted
    vector_store,        \* the documents self.vector_store holds
    self_last_message,   \* self.last_message
    index_mode,          \* the branch __init__ took: "reload" or "fresh"
    embedded_docs,       \* documents the running process gave from_texts
    persist_calls,       \* vector_store.persist() calls of the process
    constructions,       \* chatbot processes started on this storage
    \* ---- the get_response call that is running or ran last ----
    message_arg,         \* its argument message
    similar_messages,    \* the joined text of the documents found
    direct_matches,      \* the list the scan collects
    response,            \* the local variable response
    gen_calls,           \* how often the call ran self.chain
    gen_prompt,          \* the fields the generator was given
    result,              \* what the caller got: a string or Raised(..)
    call_log,            \* the steps the call has taken, in order
    last_message_at_call,\* self.last_message when the call began
    \* ---- the similarity of get_response on two strings, both ways ----
    sim_a,
    sim_b,
    sim_pc,              \* "start", then "done"
    sim_ab,              \* overlap, denominator and test for (a, b)
    sim_ba               \* the same for (b, a)

parseVars == <<lines, person_of_interest, line_no, conversations,
               last_message, last_sender, message_count, parse_pc>>

-----------------------------------------------------------------------------
\* what a construction records about itself
buildLog == <<index_mode, embedded_docs, persist_calls, constructions>>

botVars == <<conversation_file, chroma_db, bot_pc, self_conversations,
             contexts, responses, texts, common_phrases, top_phrases,
             vector_store, self_last_message, buildLog>>

\* what __init__ builds and get_response reads
builtVars == <<conversation_file, chroma_db, self_conversations, contexts,
               responses, texts, common_phrases, top_phrases, vector_store,
               buildLog>>

callVars == <<message_arg, similar_messages, direct_matches, response,
              gen_calls, gen_prompt, result, call_log, last_message_at_call>>

simVars == <<sim_a, sim_b, sim_pc, sim_ab, sim_ba>>

vars == <<parseVars, botVars, callVars, simVars>>

-----------------------------------------------------------------------------
(* Bounds *)

MaxLines == 3

\* distinct phrases in the inputs of the phrase analysis
MaxPhrases == 38

\* pairs in the conversation file the chatbot loads
MaxPairs == 2

\* chatbot processes started one after the other on the same storage
MaxRuns == 2

-----------------------------------------------------------------------------
(* String literals of the source *)

None == <<"None">>

EmptyStr == <<>>

\* os.path.exists(persist_directory) and os.listdir(...) is false
NoDb == <<"NoDb">>

SepDash ==
    <<" ","-"," ">>
SepColon ==
    <<":"," ">>
MediaOmitted ==
    <<"<","M","e","d","i","a"," ","o","m","i","t","t","e","d",">">>
Saman ==
    <<"S","a","m","a","n">>

-----------------------------------------------------------------------------
(* Python string primitives *)

\* str.isspace() for one character, as str.strip() and str.split() use it
IsSpace(c) == c \in {" ", "\n", "\t", "\r"}

RECURSIVE LStrip(_)
LStrip(s) ==
    IF s = <<>> THEN <<>>
    ELSE IF IsSpace(Head(s)) THEN LStrip(Tail(s)) ELSE s

RECURSIVE RStrip(_)
RStrip(s) ==
    IF s = <<>> THEN <<>>
    ELSE IF IsSpace(s[Len(s)]) THEN RStrip(SubSeq(s, 1, Len(s) - 1)) ELSE s

\* a variant of Strip that leaves the line as readlines() returned it
StripNothing(s) == s

\* str.strip()
Strip(s) == RStrip(LStrip(s))

\* str.find(sep) + 1: the first position where sep occurs in s, 0 if none
Find(s, sep) ==
    LET hits == {i \in 1..(Len(s) - Len(sep) + 1) :
                    SubSeq(s, i, i + Len(sep) - 1) = sep}
    IN  IF hits = {} THEN 0
        ELSE CHOOSE i \in hits : \A j \in hits : i <= j

\* the Python test `sub in s`
Contains(sub, s) == Find(s, sub) # 0

\* str.split(sep, 1): one part when sep does not occur, else two
SplitOnce(s, sep) ==
    LET i == Find(s, sep)
    IN  IF i = 0 THEN <<s>>
        ELSE <<SubSeq(s, 1, i - 1), SubSeq(s, i + Len(sep), Len(s))>>

\* truth value of a str-or-None
Truthy(x) == x # None /\ x # <<>>

-----------------------------------------------------------------------------
(* parse_whatsapp_chat *)

\* a variant that drops the media test
SkipMediaNever(message) == FALSE

\* `'<Media omitted>' in message`
SkipMedia(message) == Contains(MediaOmitted, message)

\* a variant that compares the sender for equality
SenderIsTarget(poi, sender) == poi = sender

\* `person_of_interest in sender`
SenderMatches(poi, sender) == Contains(poi, sender)

\* a variant that takes the previous message whoever sent it
PairContextAnySender(lm, ls, poi) ==
    IF Truthy(lm) THEN lm ELSE EmptyStr

\* a variant that takes the previous sender for the target only when the
\* two names are equal
PairContextUnlessEqual(lm, ls, poi) ==
    IF Truthy(lm) /\ ls # poi THEN lm ELSE EmptyStr

\* the context of a new pair: lines 50-62
PairContext(lm, ls, poi) ==
    IF Truthy(lm) /\ ~SenderMatches(poi, ls) THEN lm ELSE EmptyStr

\* a variant that stores the previous line's message as the response
ConversationPairSwapped(context, message, timestamp) ==
    [context |-> message, response |-> context, timestamp |-> timestamp]

\* the dictionary appended to conversations
ConversationPair(context, message, timestamp) ==
    [context |-> context, response |-> message, timestamp |-> timestamp]

\* one iteration of the for loop over a line, on the carried state st
ParseLine(st, raw, poi) ==
    LET line == Strip(raw) IN
    IF line = <<>> THEN st
    ELSE
      LET p1 == SplitOnce(line, SepDash) IN
      IF Len(p1) # 2 THEN st                       \* ValueError: continue
      ELSE
        LET timestamp == p1[1]
            rest      == p1[2]
            p2        == SplitOnce(rest, SepColon)
        IN
        IF Len(p2) # 2 THEN st                     \* ValueError: continue
        ELSE
          LET sender  == p2[1]
              message == p2[2]
              counted == [st EXCEPT !.message_count = @ + 1]
          IN
          IF SkipMedia(message) THEN counted
          ELSE IF ~Contains(SepColon, rest) THEN counted
          ELSE [counted EXCEPT
                  !.conversations =
                      IF SenderMatches(poi, sender)
                      THEN Append(@, ConversationPair(
                               PairContext(st.last_message, st.last_sender, poi),
                               message, timestamp))
                      ELSE @,
                  !.last_message = message,
                  !.last_sender  = sender]

ParseState ==
    [conversations |-> conversations, last_message |-> last_message,
     last_sender |-> last_sender, message_count |-> message_count]

\* the state before the loop: lines 20-26
ParseStart ==
    [conversations |-> <<>>, last_message |-> None,
     last_sender |-> None, message_count |-> 0]

\* the whole function on a list of lines
RECURSIVE ParseAll(_, _, _)
ParseAll(st, ls, poi) ==
    IF ls = <<>> THEN st
    ELSE ParseAll(ParseLine(st, Head(ls), poi), Tail(ls), poi)

-----------------------------------------------------------------------------
(* Transcripts the parser is run on *)

LineAliceHi ==
    <<"1","/","1","/","2","4",","," ","1","0",":","0","0"," ","-"," ","A","l","i","c","e",":"," ","H","i"," ","t","h","e","r","e">>
LineSamanHello ==
    <<"1","/","1","/","2","4",","," ","1","0",":","0","1"," ","-"," ","S","a","m","a","n",":"," ","H","e","l","l","o","!">>
LineSamanOk ==
    <<"t","2"," ","-"," ","S","a","m","a","n",":"," ","o","k","\n">>
LineAliceMedia ==
    <<"t","3"," ","-"," ","A","l","i","c","e",":"," ","<","M","e","d","i","a"," ","o","m","i","t","t","e","d",">">>
LineSamanMedia ==
    <<"t","4"," ","-"," ","S","a","m","a","n",":"," ","<","M","e","d","i","a"," ","o","m","i","t","t","e","d",">">>
LineSamanBlank ==
    <<"t","5"," ","-"," ","S","a","m","a","n",":"," ">>
LineSamanSpaces ==
    <<"t","5"," ","-"," ","S","a","m","a","n",":"," "," "," ","\n">>
LineJoined ==
    <<"t","6"," ","-"," ","B","o","b"," ","j","o","i","n","e","d">>
LineContinuation ==
    <<"s","e","e"," ","y","o","u",":"," ","l","a","t","e","r">>
LineBlank ==
    <<" ","\n">>
LineSamantha ==
    <<"t","7"," ","-"," ","S","a","m","a","n","t","h","a",":"," ","y","o">>
LineIndented ==
    <<" "," ","t","8"," ","-"," ","B","o","b",":"," "," ","h","i">>

LinePool ==
    {LineAliceHi, LineSamanHello, LineSamanOk, LineAliceMedia, LineSamanMedia,
     LineSamanBlank, LineSamanSpaces, LineJoined, LineContinuation, LineBlank,
     LineSamantha, LineIndented}

Transcripts == UNION {[1..n -> LinePool] : n \in 0..MaxLines}

-----------------------------------------------------------------------------
(* The parser as a state machine: one step per line *)

\* no get_response call has been made
NoCall ==
    /\ message_arg = None
    /\ similar_messages = None
    /\ direct_matches = <<>>
    /\ response = None
    /\ gen_calls = 0
    /\ gen_prompt = None
    /\ result = None
    /\ call_log = <<>>
    /\ last_message_at_call = None

\* no similarity is being compared
SimAbsent ==
    /\ sim_a = None
    /\ sim_b = None
    /\ sim_pc = "absent"
    /\ sim_ab = None
    /\ sim_ba = None

\* no chatbot process has been started
NothingBuilt ==
    /\ index_mode = None
    /\ embedded_docs = 0
    /\ persist_calls = 0
    /\ constructions = 0

\* there is no chatbot
BotFieldsAbsent ==
    /\ conversation_file = <<>>
    /\ chroma_db = NoDb
    /\ bot_pc = "absent"
    /\ self_conversations = <<>>
    /\ contexts = <<>>
    /\ responses = <<>>
    /\ texts = None
    /\ common_phrases = EmptyStr
    /\ top_phrases = <<>>
    /\ vector_store = None
    /\ self_last_message = None
    /\ NothingBuilt

\* the chatbot is not part of a run of the parser
BotAbsent ==
    /\ BotFieldsAbsent
    /\ NoCall
    /\ SimAbsent

InitParse ==
    /\ BotAbsent
    /\ lines \in Transcripts
    /\ person_of_interest = Saman
    /\ line_no = 1
    /\ conversations = ParseStart.conversations
    /\ last_message = ParseStart.last_message
    /\ last_sender = ParseStart.last_sender
    /\ message_count = ParseStart.message_count
    /\ parse_pc = "loop"

\* the body of `for line in lines`, for the next line
ParseNextLine ==
    /\ parse_pc = "loop"
    /\ line_no <= Len(lines)
    /\ LET st == ParseLine(ParseState, lines[line_no], person_of_interest) IN
         /\ conversations' = st.conversations
         /\ last_message' = st.last_message
         /\ last_sender' = st.last_sender
         /\ message_count' = st.message_count
    /\ line_no' = line_no + 1
    /\ UNCHANGED <<lines, person_of_interest, parse_pc>>
    /\ UNCHANGED <<botVars, callVars, simVars>>

\* `return conversations` once the loop is exhausted
ParseReturn ==
    /\ parse_pc = "loop"
    /\ line_no > Len(lines)
    /\ parse_pc' = "returned"
    /\ UNCHANGED <<lines, person_of_interest, line_no, conversations,
                   last_message, last_sender, message_count>>
    /\ UNCHANGED <<botVars, callVars, simVars>>

NextParse == ParseNextLine \/ ParseReturn

SpecParse == InitParse /\ [][NextParse]_vars

-----------------------------------------------------------------------------
(* The transcript format "<timestamp> - <sender>: <message>", stated on    *)
(* character positions, independently of the parser's string operations.   *)

\* the line without its leading and trailing whitespace
Trimmed(raw) ==
    LET ink == {i \in 1..Len(raw) : ~IsSpace(raw[i])}
    IN  IF ink = {} THEN <<>>
        ELSE SubSeq(raw, CHOOSE i \in ink : \A j \in ink : i <= j,
                         CHOOSE i \in ink : \A j \in ink : i >= j)

OccursAt(s, sep, i) ==
    /\ i >= 1
    /\ i + Len(sep) - 1 <= Len(s)
    /\ \A k \in 1..Len(sep) : s[i + k - 1] = sep[k]

Occurs(s, sep) == \E i \in 1..(Len(s) + 1) : OccursAt(s, sep, i)

\* the fields of a line of the shape; shaped is FALSE for any other line.
\* The timestamp ends at the first " - ", the sender at the first ": " after
\* it, and the message is the rest of the trimmed line.
Fields(raw) ==
    LET s == Trimmed(raw)
        dashes == {i \in 1..Len(s) : OccursAt(s, SepDash, i)}
        d == IF dashes = {} THEN 0
             ELSE CHOOSE i \in dashes : \A j \in dashes : i <= j
        colons == IF d = 0 THEN {}
                  ELSE {j \in (d + 3)..Len(s) : OccursAt(s, SepColon, j)}
        c == IF colons = {} THEN 0
             ELSE CHOOSE j \in colons : \A k \in colons : j <= k
    IN  IF c = 0
        THEN [shaped |-> FALSE, timestamp |-> <<>>, sender |-> <<>>,
              message |-> <<>>]
        ELSE [shaped |-> TRUE,
              timestamp |-> SubSeq(s, 1, d - 1),
              sender |-> SubSeq(s, d + 3, c - 1),
              message |-> SubSeq(s, c + 2, Len(s))]

WellShaped(raw) == Fields(raw).shaped

IsMediaLine(raw) ==
    LET f == Fields(raw) IN f.shaped /\ Occurs(f.message, MediaOmitted)

\* a line the parser is to skip: blank, not of the shape, or a media line
Skipped(raw) ==
    LET f == Fields(raw) IN ~f.shaped \/ Occurs(f.message, MediaOmitted)

\* what the properties need of every line of the transcript
LineInfo ==
    [i \in 1..Len(lines) |->
        LET f == Fields(lines[i]) IN
        [shaped |-> f.shaped,
         media |-> f.shaped /\ Occurs(f.message, MediaOmitted),
         fromTarget |-> f.shaped /\ Occurs(f.sender, person_of_interest),
         timestamp |-> f.timestamp,
         sender |-> f.sender,
         message |-> f.message]]

\* the lines the loop has been through
Processed == 1..(line_no - 1)

\* the k-th smallest member of a set of line numbers
Kth(S, k) == CHOOSE i \in S : Cardinality({j \in S : j <= i}) = k

-----------------------------------------------------------------------------
(* Properties of parse_whatsapp_chat *)

TsAlice ==
    <<"1","/","1","/","2","4",","," ","1","0",":","0","0">>
TsSaman ==
    <<"1","/","1","/","2","4",","," ","1","0",":","0","1">>
HiThere ==
    <<"H","i"," ","t","h","e","r","e">>
Hello ==
    <<"H","e","l","l","o","!">>

AliceThenSamanParsed ==
    /\ lines = <<LineAliceHi, LineSamanHello>>
    /\ person_of_interest = Saman
    /\ parse_pc = "returned"

\* C1 as stated: the two-line transcript Alice "Hi there", Saman "Hello!"
\* yields exactly the pair {context "Hi there", response "Hello!"} carrying
\* the timestamp of Alice's line, "1/1/24, 10:00".
C1_TimestampOfContextLine ==
    AliceThenSamanParsed =>
        conversations = <<[context |-> HiThere, response |-> Hello,
                           timestamp |-> TsAlice]>>

\* C1 amended: the same transcript yields exactly one pair, {context
\* "Hi there", response "Hello!"}, carrying the timestamp of the target's own
\* line, "1/1/24, 10:01".
C1_TimestampOfResponseLine ==
    AliceThenSamanParsed =>
        conversations = <<[context |-> HiThere, response |-> Hello,
                           timestamp |-> TsSaman]>>

C1_Witness == AliceThenSamanParsed /\ Len(conversations) = 1

\* the pairs are those of the lines S, one each, in the order of the lines
PairsFollow(info, S) ==
    /\ Len(conversations) = Cardinality(S)
    /\ \A k \in 1..Len(conversations) :
          /\ conversations[k].response = info[Kth(S, k)].message
          /\ conversations[k].timestamp = info[Kth(S, k)].timestamp

\* C3 as stated: every line of the shape "<timestamp> - <sender>: <message>"
\* emits one pair when its sender matches the target and none otherwise, the
\* pairs in transcript order.
C3_OnePairPerTargetLine ==
    LET info == LineInfo IN
    PairsFollow(info, {i \in Processed : info[i].fromTarget})

\* C3 amended: every line of the shape whose message holds no
\* "<Media omitted>" emits one pair when its sender matches the target and
\* none otherwise; a media line emits none; pairs are in transcript order.
C3_OnePairPerNonMediaTargetLine ==
    LET info == LineInfo IN
    PairsFollow(info, {i \in Processed :
                          info[i].fromTarget /\ ~info[i].media})

C3_Witness ==
    LET info == LineInfo IN
    /\ \E i \in Processed : info[i].fromTarget /\ info[i].media
    /\ \E i \in Processed : info[i].shaped /\ ~info[i].fromTarget
    /\ Len(conversations) >= 1

\* C4: a pair's context is empty iff the latest parsed (not skipped) line
\* before the pair's line came from the target or there is no such line;
\* otherwise the context is that line's message.
C4_ContextFromPreviousLine ==
    LET info == LineInfo
        emitting == {i \in Processed : info[i].fromTarget /\ ~info[i].media}
    IN
    Len(conversations) = Cardinality(emitting) =>
    \A k \in 1..Len(conversations) :
        LET i == Kth(emitting, k)
            before == {j \in 1..(i - 1) : info[j].shaped /\ ~info[j].media}
            j == IF before = {} THEN 0
                 ELSE CHOOSE m \in before : \A n \in before : m >= n
            noOther == j = 0 \/ info[j].fromTarget
        IN  /\ (conversations[k].context = EmptyStr) <=> noOther
            /\ ~noOther => conversations[k].context = info[j].message

C4_Witness ==
    /\ Len(conversations) = 2
    /\ conversations[1].context # EmptyStr
    /\ conversations[2].context = EmptyStr

\* C5: every emitted pair has a non-empty response, also when the transcript
\* has lines whose text after "<sender>:" is blank or only whitespace.
C5_ResponseNonEmpty ==
    \A k \in 1..Len(conversations) : conversations[k].response # EmptyStr

C5_Witness ==
    /\ \E i \in Processed : lines[i] \in {LineSamanBlank, LineSamanSpaces}
    /\ Len(conversations) >= 1

NotSkipped(raw) == ~Skipped(raw)

\* C6: a skipped line (blank, not of the shape, or a media line) emits no
\* pair and leaves last_message and last_sender as they were, so the parse
\* result is that of the transcript without its skipped lines.
C6_SkippedLineLeavesState ==
    /\ [][(parse_pc = "loop" /\ line_no <= Len(lines)
             /\ Skipped(lines[line_no]))
          => /\ conversations' = conversations
             /\ last_message' = last_message
             /\ last_sender' = last_sender]_vars
    /\ [](parse_pc = "returned" =>
            conversations =
              ParseAll(ParseStart, SelectSeq(lines, NotSkipped),
                       person_of_interest).conversations)

C6_Witness ==
    LET info == LineInfo IN
    /\ parse_pc = "returned"
    /\ Len(lines) = 3
    /\ info[1].shaped /\ ~info[1].media /\ ~info[1].fromTarget
    /\ info[2].media
    /\ info[3].fromTarget /\ ~info[3].media
    /\ Len(conversations) = 1
    /\ conversations[1].context = info[1].message

-----------------------------------------------------------------------------
(* Python string primitives used by context_chatbot.py *)

UpperCase ==
    <<"A","B","C","D","E","F","G","H","I","J","K","L","M","N","O","P","Q","R","S","T","U","V","W","X","Y","Z">>
LowerCase ==
    <<"a","b","c","d","e","f","g","h","i","j","k","l","m","n","o","p","q","r","s","t","u","v","w","x","y","z">>
Digits ==
    <<"0","1","2","3","4","5","6","7","8","9">>

LowerChar(c) ==
    IF \E i \in 1..Len(UpperCase) : UpperCase[i] = c
    THEN LowerCase[CHOOSE i \in 1..Len(UpperCase) : UpperCase[i] = c]
    ELSE c

\* a variant that also drops the punctuation
LowerNoPunctuation(s) ==
    LET IsKept(c) == c \notin {"?", "!", ".", ","}
        kept == SelectSeq(s, IsKept)
    IN  [i \in 1..Len(kept) |-> LowerChar(kept[i])]

\* str.lower()
Lower(s) == [i \in 1..Len(s) |-> LowerChar(s[i])]

\* str.split(): the maximal runs of non-whitespace, in order
RECURSIVE SplitWs(_)
SplitWs(s) ==
    LET t == LStrip(s) IN
    IF t = <<>> THEN <<>>
    ELSE LET gaps == {i \in 1..Len(t) : IsSpace(t[i])}
             e == IF gaps = {} THEN Len(t) + 1
                  ELSE CHOOSE i \in gaps : \A j \in gaps : i <= j
         IN  <<SubSeq(t, 1, e - 1)>> \o SplitWs(SubSeq(t, e, Len(t)))

\* set(s.split())
WordSet(s) == LET w == SplitWs(s) IN {w[i] : i \in 1..Len(w)}

\* sep.join(parts)
RECURSIVE Join(_, _)
Join(sep, parts) ==
    IF parts = <<>> THEN <<>>
    ELSE IF Len(parts) = 1 THEN parts[1]
    ELSE parts[1] \o sep \o Join(sep, Tail(parts))

\* str(n) for a natural number
RECURSIVE IntToStr(_)
IntToStr(n) ==
    IF n < 10 THEN <<Digits[n + 1]>>
    ELSE IntToStr(n \div 10) \o <<Digits[(n % 10) + 1]>>

-----------------------------------------------------------------------------
(* extract_common_phrases *)

\* a short response has at most this many words
MaxWords == 5

\* a common phrase appears at least this many times
MinCount == 5

\* the number of phrases kept
TopPhrases == 30

HasResponse(conv) == Truthy(conv.response)

\* [conv['response'] for conv in self.conversations if conv['response']]
AllResponses(convs) ==
    LET kept == SelectSeq(convs, HasResponse)
    IN  [k \in 1..Len(kept) |-> kept[k].response]

IsShort(phrase) == Len(SplitWs(phrase)) <= MaxWords

\* the keys of phrase_counter in insertion order: a short response enters
\* the dictionary where it occurs first
CounterKeys(rs) ==
    LET IsNewKey(p) == IsShort(rs[p]) /\ \A q \in 1..(p - 1) : rs[q] # rs[p]
        firsts == SelectSeq([p \in 1..Len(rs) |-> p], IsNewKey)
    IN  [k \in 1..Len(firsts) |-> rs[firsts[k]]]

\* phrase_counter[phrase] after the loop: one per occurrence
CountIn(rs, phrase) == Cardinality({p \in 1..Len(rs) : rs[p] = phrase})

\* a variant that keeps every phrase that was counted
IsCommonAlways(count) == count >= 1

\* `count >= 5`
IsCommon(count) == count >= MinCount

\* a variant that sorts ascending
GoesBeforeAscending(a, b) == a[2] < b[2]

\* the order of sort(key=count, reverse=True): a goes before b
GoesBefore(a, b) == a[2] > b[2]

\* list.sort is stable: an entry is put after the entries that do not come
\* after it
RECURSIVE SortInsert(_, _)
SortInsert(sorted, e) ==
    IF sorted = <<>> THEN <<e>>
    ELSE IF GoesBefore(e, Head(sorted)) THEN <<e>> \o sorted
    ELSE <<Head(sorted)>> \o SortInsert(Tail(sorted), e)

RECURSIVE StableSort(_)
StableSort(entries) ==
    IF entries = <<>> THEN <<>>
    ELSE SortInsert(StableSort(SubSeq(entries, 1, Len(entries) - 1)),
                    entries[Len(entries)])

\* a variant that keeps the whole list
TopSliceAll(entries) == entries

\* common_phrases[:30]
TopSlice(entries) ==
    SubSeq(entries, 1, IF Len(entries) < TopPhrases THEN Len(entries)
                       ELSE TopPhrases)

\* the list of (phrase, count) that is formatted: lines 121-138
CommonPhraseList(convs) ==
    LET rs == AllResponses(convs)
        keys == CounterKeys(rs)
        counted == [k \in 1..Len(keys) |-> <<keys[k], CountIn(rs, keys[k])>>]
        IsCommonEntry(e) == IsCommon(e[2])
    IN  TopSlice(StableSort(SelectSeq(counted, IsCommonEntry)))

BulletOpen ==
    <<"-"," ","\"">>
BulletUsed ==
    <<"\""," ","(","u","s","e","d"," ">>
BulletTimes ==
    <<" ","t","i","m","e","s",")">>
Newline ==
    <<"\n">>

\* "\n".join([f"- \"{phrase}\" (used {count} times)" ...])
FormatPhrases(entries) ==
    Join(Newline,
         [k \in 1..Len(entries) |->
            BulletOpen \o entries[k][1] \o BulletUsed
              \o IntToStr(entries[k][2]) \o BulletTimes])

-----------------------------------------------------------------------------
(* extract_common_phrases on its own: the pair lists it is run on *)

Stamp ==
    <<"t">>

\* distinct phrases: a first word of i \div 6 + 1 letters, then i % 6 more
\* words, so that one phrase in six has six words
PhraseText(i) ==
    [k \in 1..((i \div 6) + 1) |-> "a"]
      \o [k \in 1..(2 * (i % 6)) |-> IF k % 2 = 1 THEN " " ELSE "b"]

CountPatterns == {"four", "five", "mixed", "rising"}

\* how often phrase i occurs in the list
Occurrences(pattern, i) ==
    CASE pattern = "four"   -> 4
      [] pattern = "five"   -> 5
      [] pattern = "mixed"  -> 4 + (i % 3)
      [] pattern = "rising" -> 5 + (i % 2)

PhrasePair(i) == [context |-> EmptyStr, response |-> PhraseText(i),
                  timestamp |-> Stamp]

\* no phrase occurs more often than this
MaxOccurrences == 6

Wanted(pattern, cell) == Occurrences(pattern, cell.phrase) >= cell.round

\* every phrase once per round, round after round
Interleaved(pattern, n) ==
    LET grid == [p \in 1..(MaxOccurrences * n) |->
                    [phrase |-> IF n = 0 THEN 0 ELSE (p - 1) % n,
                     round |-> IF n = 0 THEN 0 ELSE ((p - 1) \div n) + 1]]
        IsWanted(cell) == Wanted(pattern, cell)
        cells == SelectSeq(grid, IsWanted)
    IN  [k \in 1..Len(cells) |-> PhrasePair(cells[k].phrase)]

\* all occurrences of the first phrase, then those of the next, ...
Blocks(pattern, n) ==
    LET grid == [p \in 1..(MaxOccurrences * n) |->
                    [phrase |-> (p - 1) \div MaxOccurrences,
                     round |-> ((p - 1) % MaxOccurrences) + 1]]
        IsWanted(cell) == Wanted(pattern, cell)
        cells == SelectSeq(grid, IsWanted)
    IN  [k \in 1..Len(cells) |-> PhrasePair(cells[k].phrase)]

\* a pair with an empty response leads every list
PhraseInputs ==
    {<<[context |-> EmptyStr, response |-> EmptyStr, timestamp |-> Stamp]>>
        \o (IF interleave THEN Interleaved(pattern, n)
            ELSE Blocks(pattern, n)) :
       pattern \in CountPatterns, n \in 0..MaxPhrases,
       interleave \in BOOLEAN}

\* the parser is not part of a run of the chatbot
ParserAbsent ==
    /\ lines = <<>>
    /\ person_of_interest = Saman
    /\ line_no = 1
    /\ conversations = <<>>
    /\ last_message = None
    /\ last_sender = None
    /\ message_count = 0
    /\ parse_pc = "absent"

InitPhrases ==
    /\ ParserAbsent
    /\ NoCall
    /\ SimAbsent
    /\ NothingBuilt
    /\ conversation_file = <<>>
    /\ chroma_db = NoDb
    /\ bot_pc = "loaded"
    /\ self_conversations \in PhraseInputs
    /\ contexts = <<>>
    /\ responses = <<>>
    /\ texts = None
    /\ common_phrases = EmptyStr
    /\ top_phrases = <<>>
    /\ vector_store = None
    /\ self_last_message = None

\* self.common_phrases = self.extract_common_phrases()
ExtractCommonPhrases ==
    /\ bot_pc = "loaded"
    /\ top_phrases' = CommonPhraseList(self_conversations)
    /\ common_phrases' = FormatPhrases(top_phrases')
    /\ bot_pc' = "extracted"
    /\ UNCHANGED <<conversation_file, chroma_db, self_conversations, contexts,
                   responses, texts, vector_store, self_last_message,
                   buildLog>>
    /\ UNCHANGED <<parseVars, callVars, simVars>>

NextPhrases == ExtractCommonPhrases

SpecPhrases == InitPhrases /\ [][NextPhrases]_vars

-----------------------------------------------------------------------------
(* Properties of extract_common_phrases *)

\* the number of words of s: the positions where a word starts
WordCount(s) ==
    Cardinality({i \in 1..Len(s) :
                    ~IsSpace(s[i]) /\ (i = 1 \/ IsSpace(s[i - 1]))})

\* the pairs with a non-empty response
Answered == {i \in 1..Len(self_conversations) :
                self_conversations[i].response # EmptyStr}

TimesUsed(phrase) ==
    Cardinality({i \in Answered : self_conversations[i].response = phrase})

\* C7: extract_common_phrases returns at most 30 entries; every entry is a
\* response of at most 5 words whose count is its number of occurrences
\* among the non-empty responses and is at least 5; the entries are in
\* descending order of count.
C7_CommonPhrases ==
    bot_pc = "extracted" =>
      /\ Len(top_phrases) <= 30
      /\ \A k \in 1..Len(top_phrases) :
            LET phrase == top_phrases[k][1]
                count == top_phrases[k][2]
            IN  /\ \E i \in Answered : self_conversations[i].response = phrase
                /\ WordCount(phrase) <= 5
                /\ count = TimesUsed(phrase)
                /\ count >= 5
      /\ \A k \in 1..(Len(top_phrases) - 1) :
            top_phrases[k][2] >= top_phrases[k + 1][2]

\* more than 30 phrases qualify, with different counts, and the 30 most
\* used were kept
C7_Witness ==
    /\ bot_pc = "extracted"
    /\ Len(top_phrases) = 30
    /\ top_phrases[1][2] > top_phrases[30][2]
    /\ \E i \in Answered :
          /\ WordCount(self_conversations[i].response) <= 5
          /\ TimesUsed(self_conversations[i].response) >= 5
          /\ \A k \in 1..30 :
                top_phrases[k][1] # self_conversations[i].response

-----------------------------------------------------------------------------
(* ImprovedMemoryChatbot: construction *)

ContextLabel ==
    <<"C","o","n","t","e","x","t",":"," ">>
ResponseLabel ==
    <<"\n","R","e","s","p","o","n","s","e",":"," ">>
DocSeparator ==
    <<"\n","\n">>

\* f"Context: {conv['context']}\nResponse: {conv['response']}"
DocText(conv) == ContextLabel \o conv.context \o ResponseLabel \o conv.response

\* a variant that keeps the context of every pair
ContextsOfUnfiltered(convs) == [k \in 1..Len(convs) |-> convs[k].context]

\* [conv['context'] for conv in self.conversations if conv['response']]
ContextsOf(convs) ==
    LET kept == SelectSeq(convs, HasResponse)
    IN  [k \in 1..Len(kept) |-> kept[k].context]

\* create_conversation_pairs: the three lists it appends to, from empty
RECURSIVE CreateConversationPairs(_, _)
CreateConversationPairs(convs, built) ==
    IF convs = <<>> THEN built
    ELSE LET conv == Head(convs) IN
         CreateConversationPairs(Tail(convs),
            IF Truthy(conv.response)
            THEN [texts |-> Append(built.texts, DocText(conv)),
                  contexts |-> Append(built.contexts, conv.context),
                  responses |-> Append(built.responses, conv.response)]
            ELSE built)

\* num_examples, the default of get_response
NumExamples == 5

-----------------------------------------------------------------------------
(* get_response: the direct-match scan *)

\* a variant that only looks for the message inside the context
SubstringMessageInContext(msg, context) ==
    Contains(Lower(msg), Lower(context))

\* `message.lower() in context.lower() or context.lower() in message.lower()`
SubstringEitherWay(msg, context) ==
    \/ Contains(Lower(msg), Lower(context))
    \/ Contains(Lower(context), Lower(msg))

\* len(set(message.lower().split()) & set(context.lower().split()))
Overlap(msg, context) ==
    Cardinality(WordSet(Lower(msg)) \cap WordSet(Lower(context)))

\* a variant that divides by the word count of the message alone
DenominatorOfMessage(msg, context) == Len(SplitWs(msg))

\* max(len(message.split()), len(context.split()))
Denominator(msg, context) ==
    LET a == Len(SplitWs(msg))
        b == Len(SplitWs(context))
    IN  IF a >= b THEN a ELSE b

\* a variant with the threshold at 0.7
AboveThresholdStrict(overlap, denominator) == 10 * overlap > 7 * denominator

\* a variant that lets a similarity of exactly 0.5 pass
AboveThresholdInclusive(overlap, denominator) == 2 * overlap >= denominator

\* `similarity > 0.5` for similarity = overlap / denominator
AboveThreshold(overlap, denominator) == 2 * overlap > denominator

\* a variant without the test `if context`
ReachesDivisionAnyContext(msg, context) == SubstringEitherWay(msg, context)

\* the scan reaches the division for this context
ReachesDivision(msg, context) ==
    Truthy(context) /\ SubstringEitherWay(msg, context)

\* the division raises ZeroDivisionError for some context
ScanDividesByZero(msg, ctxs) ==
    \E i \in 1..Len(ctxs) :
        ReachesDivision(msg, ctxs[i]) /\ Denominator(msg, ctxs[i]) = 0

\* the context at position i adds responses[i] to direct_matches
IsDirectMatch(msg, context) ==
    /\ ReachesDivision(msg, context)
    /\ AboveThreshold(Overlap(msg, context), Denominator(msg, context))

\* direct_matches after the loop over enumerate(self.contexts)
DirectMatches(msg, ctxs, resps) ==
    LET Hit(i) == IsDirectMatch(msg, ctxs[i])
        hits == SelectSeq([i \in 1..Len(ctxs) |-> i], Hit)
    IN  [k \in 1..Len(hits) |-> resps[hits[k]]]

\* a variant that always generates
HasDirectMatchNever(matches) == FALSE

\* `if direct_matches:`
HasDirectMatch(matches) == matches # <<>>

\* an exception that reaches the caller of get_response
Raised(kind) == <<"raised", kind>>

IsRaised(x) == Len(x) = 2 /\ x[1] = "raised"

-----------------------------------------------------------------------------
(* The conversation files, messages and generator outputs of the runs *)

KyaHalHaQ ==
    <<"K","y","a"," ","h","a","l"," ","h","a","?">>
KyaHalHa ==
    <<"K","y","a"," ","h","a","l"," ","h","a">>
KyaHalHaBhai ==
    <<"k","y","a"," ","h","a","l"," ","h","a"," ","b","h","a","i">>
HiThereLower ==
    <<"h","i"," ","t","h","e","r","e">>
Hi ==
    <<"h","i">>
Theek ==
    <<"t","h","e","e","k">>
Ok ==
    <<"o","k">>
SpaceYo ==
    <<" ","y","o">>
Acha ==
    <<"a","c","h","a">>
AchaPadded ==
    <<" ","a","c","h","a","\n">>

Pair(context, reply) ==
    [context |-> context, response |-> reply, timestamp |-> Stamp]

\* pairs as the parser writes them, and one whose response is empty
PairPool ==
    {Pair(KyaHalHaBhai, Theek), Pair(KyaHalHa, Hello), Pair(HiThere, SpaceYo),
     Pair(EmptyStr, Ok), Pair(Hi, EmptyStr)}

ConversationFiles == UNION {[1..n -> PairPool] : n \in 0..MaxPairs}

\* an index persisted by an earlier run
OldDb == <<DocText(Pair(HiThere, SpaceYo))>>

Blank ==
    <<" ">>

MessagePool == {KyaHalHaQ, KyaHalHa, HiThereLower, Hi, EmptyStr, Blank}

\* what self.chain.run may return
GenOutputs == {EmptyStr, Acha, AchaPadded}

-----------------------------------------------------------------------------
(* The chatbot as a state machine *)

\* the fields of an instance that __init__ has not set yet
Unbuilt ==
    /\ self_conversations = None
    /\ contexts = None
    /\ responses = None
    /\ texts = None
    /\ common_phrases = None
    /\ top_phrases = <<>>
    /\ vector_store = None
    /\ self_last_message = None
    /\ index_mode = None
    /\ embedded_docs = 0
    /\ persist_calls = 0

Init ==
    /\ ParserAbsent
    /\ NoCall
    /\ SimAbsent
    /\ conversation_file \in ConversationFiles
    /\ chroma_db \in {NoDb, OldDb}
    /\ bot_pc = "start"
    /\ Unbuilt
    /\ constructions = 0

\* a variant that never finds a persisted index
DbExistsNever(db) == FALSE

\* os.path.exists(persist_directory) and os.listdir(persist_directory)
DbExists(db) == db # NoDb

\* __init__: reload when ./chroma_db holds an index, else a fresh build
Construct ==
    /\ bot_pc = "start"
    /\ self_conversations' = conversation_file
    /\ top_phrases' = CommonPhraseList(conversation_file)
    /\ common_phrases' = FormatPhrases(top_phrases')
    /\ IF DbExists(chroma_db)
       THEN /\ vector_store' = chroma_db
            /\ contexts' = ContextsOf(conversation_file)
            /\ responses' = AllResponses(conversation_file)
            /\ index_mode' = "reload"
            /\ UNCHANGED <<texts, chroma_db, embedded_docs, persist_calls>>
       ELSE LET built == CreateConversationPairs(conversation_file,
                            [texts |-> <<>>, contexts |-> <<>>,
                             responses |-> <<>>])
            IN  /\ texts' = built.texts
                /\ contexts' = built.contexts
                /\ responses' = built.responses
                /\ vector_store' = built.texts
                /\ chroma_db' = built.texts
                /\ index_mode' = "fresh"
                /\ embedded_docs' = Len(built.texts)
                /\ persist_calls' = persist_calls + 1
    /\ self_last_message' = EmptyStr
    /\ constructions' = constructions + 1
    /\ bot_pc' = "idle"
    /\ UNCHANGED <<conversation_file, parseVars, callVars, simVars>>

\* the process ends and the script is started again on the same files
Restart ==
    /\ bot_pc = "idle"
    /\ constructions < MaxRuns
    /\ bot_pc' = "start"
    /\ self_conversations' = None
    /\ contexts' = None
    /\ responses' = None
    /\ texts' = None
    /\ common_phrases' = None
    /\ top_phrases' = <<>>
    /\ vector_store' = None
    /\ self_last_message' = None
    /\ index_mode' = None
    /\ embedded_docs' = 0
    /\ persist_calls' = 0
    /\ message_arg' = None
    /\ similar_messages' = None
    /\ direct_matches' = <<>>
    /\ response' = None
    /\ gen_calls' = 0
    /\ gen_prompt' = None
    /\ result' = None
    /\ call_log' = <<>>
    /\ last_message_at_call' = None
    /\ UNCHANGED <<conversation_file, chroma_db, constructions, parseVars,
                   simVars>>

\* a variant that goes to the scan without asking the index
FirstStepScan == "scan"

\* the statement get_response begins with: the index query
FirstStep == "search"

\* get_response(message) is called
GetResponse(msg) ==
    /\ bot_pc = "idle"
    /\ message_arg' = msg
    /\ similar_messages' = None
    /\ direct_matches' = <<>>
    /\ response' = None
    /\ gen_calls' = 0
    /\ gen_prompt' = None
    /\ call_log' = <<>>
    /\ last_message_at_call' = self_last_message
    /\ result' = None
    /\ bot_pc' = FirstStep
    /\ UNCHANGED <<self_last_message, builtVars, parseVars, simVars>>

\* the ways the index may order the k nearest of its n documents
Rankings(n, k) ==
    LET m == IF n < k THEN n ELSE k
    IN  {f \in [1..m -> 1..n] : \A a, b \in 1..m : a # b => f[a] # f[b]}

\* similarity_search returns, and the documents are joined
SearchIndex ==
    /\ bot_pc = "search"
    /\ \E f \in Rankings(Len(vector_store), NumExamples) :
          similar_messages' =
              Join(DocSeparator, [k \in DOMAIN f |-> vector_store[f[k]]])
    /\ call_log' = Append(call_log, "search")
    /\ bot_pc' = "scan"
    /\ UNCHANGED <<message_arg, direct_matches, response, gen_calls,
                   gen_prompt, result, last_message_at_call,
                   self_last_message, builtVars, parseVars, simVars>>

\* similarity_search raises: get_response ends with the exception
SearchIndexFails ==
    /\ bot_pc = "search"
    /\ call_log' = Append(call_log, "search")
    /\ result' = Raised("IndexUnavailable")
    /\ bot_pc' = "idle"
    /\ UNCHANGED <<message_arg, similar_messages, direct_matches, response,
                   gen_calls, gen_prompt, last_message_at_call,
                   self_last_message, builtVars, parseVars, simVars>>

\* the loop over enumerate(self.contexts)
ScanContexts ==
    /\ bot_pc = "scan"
    /\ call_log' = Append(call_log, "scan")
    /\ IF ScanDividesByZero(message_arg, contexts)
       THEN /\ result' = Raised("ZeroDivisionError")
            /\ bot_pc' = "idle"
            /\ UNCHANGED direct_matches
       ELSE /\ direct_matches' = DirectMatches(message_arg, contexts, responses)
            /\ bot_pc' = "decide"
            /\ UNCHANGED result
    /\ UNCHANGED <<message_arg, similar_messages, response, gen_calls,
                   gen_prompt, last_message_at_call, self_last_message,
                   builtVars, parseVars, simVars>>

\* a variant that uses every stored response once
ChooseDirectMatchConsuming ==
    /\ bot_pc = "decide"
    /\ HasDirectMatch(direct_matches)
    /\ \E i \in 1..Len(responses) :
          /\ \E k \in 1..Len(direct_matches) : direct_matches[k] = responses[i]
          /\ response' = responses[i]
          /\ responses' = [k \in 1..(Len(responses) - 1) |->
                              IF k < i THEN responses[k] ELSE responses[k + 1]]
          /\ contexts' = [k \in 1..(Len(contexts) - 1) |->
                              IF k < i THEN contexts[k] ELSE contexts[k + 1]]
    /\ call_log' = Append(call_log, "choose")
    /\ bot_pc' = "update"
    /\ UNCHANGED <<message_arg, similar_messages, direct_matches, gen_calls,
                   gen_prompt, result, last_message_at_call,
                   self_last_message, conversation_file, chroma_db,
                   self_conversations, texts, common_phrases, top_phrases,
                   vector_store, buildLog, parseVars, simVars>>

\* response = random.choice(direct_matches)
ChooseDirectMatch ==
    /\ bot_pc = "decide"
    /\ HasDirectMatch(direct_matches)
    /\ \E i \in 1..Len(direct_matches) : response' = direct_matches[i]
    /\ call_log' = Append(call_log, "choose")
    /\ bot_pc' = "update"
    /\ UNCHANGED <<message_arg, similar_messages, direct_matches, gen_calls,
                   gen_prompt, result, last_message_at_call,
                   self_last_message, builtVars, parseVars, simVars>>

\* the fields self.chain.run is given
PromptFields ==
    [message |-> message_arg, similar_messages |-> similar_messages,
     common_phrases |-> common_phrases, last_message |-> self_last_message,
     name |-> Saman]

\* response = self.chain.run(...), which returns some text
Generate ==
    /\ bot_pc = "decide"
    /\ ~HasDirectMatch(direct_matches)
    /\ gen_calls' = gen_calls + 1
    /\ gen_prompt' = PromptFields
    /\ response' \in GenOutputs
    /\ call_log' = Append(call_log, "generate")
    /\ bot_pc' = "update"
    /\ UNCHANGED <<message_arg, similar_messages, direct_matches, result,
                   last_message_at_call, self_last_message, builtVars,
                   parseVars, simVars>>

\* a variant that answers with a stock phrase when the generator raises
GenerateFailsWithFallback ==
    /\ bot_pc = "decide"
    /\ ~HasDirectMatch(direct_matches)
    /\ gen_calls' = gen_calls + 1
    /\ gen_prompt' = PromptFields
    /\ response' = <<"o", "k">>
    /\ call_log' = Append(call_log, "generate")
    /\ bot_pc' = "update"
    /\ UNCHANGED <<message_arg, similar_messages, direct_matches, result,
                   last_message_at_call, self_last_message, builtVars,
                   parseVars, simVars>>

\* self.chain.run(...) raises: get_response ends with the exception
GenerateFails ==
    /\ bot_pc = "decide"
    /\ ~HasDirectMatch(direct_matches)
    /\ gen_calls' = gen_calls + 1
    /\ gen_prompt' = PromptFields
    /\ call_log' = Append(call_log, "generate")
    /\ result' = Raised("GeneratorError")
    /\ bot_pc' = "idle"
    /\ UNCHANGED <<message_arg, similar_messages, direct_matches, response,
                   last_message_at_call, self_last_message, builtVars,
                   parseVars, simVars>>

\* self.last_message = response
UpdateLastMessage ==
    /\ bot_pc = "update"
    /\ self_last_message' = response
    /\ call_log' = Append(call_log, "update")
    /\ bot_pc' = "return"
    /\ UNCHANGED <<message_arg, similar_messages, direct_matches, response,
                   gen_calls, gen_prompt, result, last_message_at_call,
                   builtVars, parseVars, simVars>>

\* return response.strip()
ReturnResponse ==
    /\ bot_pc = "return"
    /\ result' = Strip(response)
    /\ call_log' = Append(call_log, "return")
    /\ bot_pc' = "idle"
    /\ UNCHANGED <<message_arg, similar_messages, direct_matches, response,
                   gen_calls, gen_prompt, last_message_at_call,
                   self_last_message, builtVars, parseVars, simVars>>

Next ==
    \/ Construct
    \/ Restart
    \/ \E msg \in MessagePool : GetResponse(msg)
    \/ SearchIndex
    \/ SearchIndexFails
    \/ ScanContexts
    \/ ChooseDirectMatch
    \/ Generate
    \/ GenerateFails
    \/ UpdateLastMessage
    \/ ReturnResponse

Spec == Init /\ [][Next]_vars

-----------------------------------------------------------------------------
(* Properties of get_response *)

\* the running call has made its choice between a match and the generator
Decided == bot_pc \in {"update", "return"}

\* the scan of the running call is over
Scanned == bot_pc \in {"decide", "update", "return"}

\* the call that ran last is over and got past its scan
FinishedPastScan ==
    /\ bot_pc = "idle"
    /\ message_arg # None
    /\ result \notin {Raised("IndexUnavailable"), Raised("ZeroDivisionError")}

InMatches(reply) == \E k \in 1..Len(direct_matches) : direct_matches[k] = reply

\* C2 as stated: for the message "Kya hal ha?" a stored pair with context
\* "kya hal ha bhai" puts its response in the candidate set and the call
\* returns a direct match without calling the generator.
C2_BhaiContextIsDirectMatch ==
    (message_arg = KyaHalHaQ /\ Decided) =>
        \A i \in 1..Len(contexts) :
            contexts[i] = KyaHalHaBhai =>
                InMatches(responses[i]) /\ gen_calls = 0

\* C2 amended: for the message "Kya hal ha?" a stored pair with context
\* "kya hal ha bhai" is no candidate: neither string is a substring of the
\* other and the overlap ratio is 2/4, not above 0.5; when every stored
\* context is that one, the generator is called.  A stored context
\* "Kya hal ha" (ratio 2/3) is a candidate, and then the call returns a direct
\* match without calling the generator.
C2_BhaiContextIsNoDirectMatch ==
    (message_arg = KyaHalHaQ /\ Scanned) =>
        /\ (\A i \in 1..Len(contexts) : contexts[i] = KyaHalHaBhai) =>
              /\ direct_matches = <<>>
              /\ Decided => gen_calls = 1 /\ response \in GenOutputs
        /\ (\E i \in 1..Len(contexts) : contexts[i] = KyaHalHaBhai) =>
              /\ ~SubstringEitherWay(message_arg, KyaHalHaBhai)
              /\ Overlap(message_arg, KyaHalHaBhai) = 2
              /\ Denominator(message_arg, KyaHalHaBhai) = 4
        /\ \A i \in 1..Len(contexts) :
              contexts[i] = KyaHalHa =>
                  /\ Overlap(message_arg, contexts[i]) = 2
                  /\ Denominator(message_arg, contexts[i]) = 3
                  /\ InMatches(responses[i])
                  /\ gen_calls = 0
                  /\ Decided => InMatches(response)

C2_Witness ==
    /\ message_arg = KyaHalHaQ
    /\ contexts = <<KyaHalHaBhai>>
    /\ bot_pc = "update"
    /\ gen_calls = 1

\* C8: a get_response call runs the generator zero times when its
\* direct-match candidate set is non-empty and exactly once when it is empty
\* (a call that an index failure ends before the scan computes no set and
\* runs no generator).
C8_GeneratorOnlyWithoutMatch ==
    /\ bot_pc \in {"search", "scan", "decide"} => gen_calls = 0
    /\ (Decided \/ FinishedPastScan) =>
          gen_calls = IF direct_matches # <<>> THEN 0 ELSE 1
    /\ result = Raised("IndexUnavailable") /\ bot_pc = "idle" => gen_calls = 0

\* a call on the direct-match path, after a call that generated
C8_Witness ==
    /\ bot_pc = "return"
    /\ direct_matches # <<>>
    /\ gen_calls = 0
    /\ last_message_at_call = Acha

\* a call has returned a string to its caller
Returned == bot_pc = "idle" /\ message_arg # None /\ ~IsRaised(result)

\* C9: after every successful get_response call self.last_message is the
\* string the call returned (the trimmed response); it starts empty and
\* changes at no other time.
C9_LastMessageIsReturned ==
    /\ bot_pc = "idle" /\ message_arg = None => self_last_message = EmptyStr
    /\ Returned => self_last_message = result

\* C10: when there is no direct match and the generator fails or returns
\* empty text, get_response ends in an error for its caller and returns no
\* empty string.
C10_GeneratorFailureSurfaces ==
    (bot_pc = "idle" /\ gen_calls = 1
       /\ (response = None \/ response = EmptyStr)) =>
        IsRaised(result)

-----------------------------------------------------------------------------
(* The body of the scan loop on two strings, taken both ways *)

\* what lines 170-173 do for one message and one context
ScanOutcome(msg, context) ==
    [substring |-> SubstringEitherWay(msg, context),
     overlap |-> Overlap(msg, context),
     denominator |-> Denominator(msg, context),
     match |-> IF ~ReachesDivision(msg, context) THEN FALSE
               ELSE IF Denominator(msg, context) = 0
                    THEN "ZeroDivisionError"
                    ELSE IsDirectMatch(msg, context)]

HiHi ==
    <<"H","I"," "," ","h","i">>
ThereHi ==
    <<"t","h","e","r","e"," ","h","i">>
HiThereBhai ==
    <<"h","i"," ","t","h","e","r","e"," ","b","h","a","i">>

SimilarityPool ==
    {EmptyStr, Blank, Hi, HiHi, HiThere, HiThereLower, ThereHi, HiThereBhai,
     KyaHalHaQ, KyaHalHa, KyaHalHaBhai}

InitSimilarity ==
    /\ ParserAbsent
    /\ BotFieldsAbsent
    /\ NoCall
    /\ sim_a \in SimilarityPool
    /\ sim_b \in SimilarityPool
    /\ sim_pc = "start"
    /\ sim_ab = None
    /\ sim_ba = None

\* the loop body on (a, b) and on (b, a)
CompareBothWays ==
    /\ sim_pc = "start"
    /\ sim_ab' = ScanOutcome(sim_a, sim_b)
    /\ sim_ba' = ScanOutcome(sim_b, sim_a)
    /\ sim_pc' = "done"
    /\ UNCHANGED <<sim_a, sim_b, parseVars, botVars, callVars>>

NextSimilarity == CompareBothWays

SpecSimilarity == InitSimilarity /\ [][NextSimilarity]_vars

-----------------------------------------------------------------------------
(* Properties of the similarity *)

\* the case-folded words of s, as a set: the maximal runs without whitespace
FoldedWords(s) ==
    LET t == [i \in 1..Len(s) |-> LowerChar(s[i])]
    IN  {SubSeq(t, i, j) : i \in 1..Len(t), j \in 1..Len(t)} \cap
        {w \in {SubSeq(t, i, j) : i \in 1..Len(t), j \in 1..Len(t)} :
            /\ w # <<>>
            /\ \A k \in 1..Len(w) : ~IsSpace(w[k])
            /\ \E i \in 1..Len(t) :
                  /\ i + Len(w) - 1 <= Len(t)
                  /\ SubSeq(t, i, i + Len(w) - 1) = w
                  /\ (i = 1 \/ IsSpace(t[i - 1]))
                  /\ (i + Len(w) - 1 = Len(t) \/ IsSpace(t[i + Len(w)]))}

Larger(m, n) == IF m >= n THEN m ELSE n

\* C11: the similarity |wordset(a) & wordset(b)| / max(wordCount(a),
\* wordCount(b)) over case-folded words is the same for (a, b) and (b, a)
\* whenever the two strings have a word between them, and so is the whole
\* direct-match test.
C11_SimilaritySymmetric ==
    (sim_pc = "done" /\ WordCount(sim_a) + WordCount(sim_b) >= 1) =>
        /\ sim_ab.overlap =
              Cardinality(FoldedWords(sim_a) \cap FoldedWords(sim_b))
        /\ sim_ab.denominator = Larger(WordCount(sim_a), WordCount(sim_b))
        /\ sim_ab.overlap = sim_ba.overlap
        /\ sim_ab.denominator = sim_ba.denominator
        /\ sim_ab.substring = sim_ba.substring
        /\ sim_ab.match = sim_ba.match

\* two different strings that are a direct match of each other
C11_Witness ==
    /\ sim_pc = "done"
    /\ sim_a # sim_b
    /\ WordCount(sim_a) # WordCount(sim_b)
    /\ sim_ab.match = TRUE
    /\ sim_ba.match = TRUE

-----------------------------------------------------------------------------
(* Properties of get_response: order, frame and failures *)

DirectPath == <<"search", "scan", "choose", "update", "return">>
GeneratorPath == <<"search", "scan", "generate", "update", "return">>

IsPrefixOf(s, t) == Len(s) <= Len(t) /\ SubSeq(t, 1, Len(s)) = s

\* C12: the steps of every get_response call come in the order index query,
\* scan of the stored contexts, direct-match choice or one generator call,
\* update of last_message, return; the index is queried once on every call,
\* also on a call that ends in a direct match.
C12_StepsInOrder ==
    /\ IsPrefixOf(call_log, DirectPath) \/ IsPrefixOf(call_log, GeneratorPath)
    /\ bot_pc \in {"scan", "decide", "update", "return"} =>
          /\ Len(call_log) >= 1
          /\ call_log[1] = "search"
          /\ similar_messages # None
    /\ Returned =>
          /\ call_log = IF direct_matches # <<>> THEN DirectPath
                        ELSE GeneratorPath
          /\ similar_messages # None
          /\ gen_calls = IF direct_matches # <<>> THEN 0 ELSE 1
          /\ self_last_message = response
    /\ bot_pc = "return" => self_last_message = response
    /\ bot_pc = "update" => result = None

\* a call that ended in a direct match
C12_Witness ==
    /\ Returned
    /\ call_log = DirectPath
    /\ direct_matches # <<>>

\* C14: a construction takes the reload mode when ./chroma_db holds an index
\* and then embeds and persists nothing; it takes the fresh mode otherwise and
\* has persisted the index once it can answer; the mode is fixed until the
\* next construction, and a construction after a fresh build reloads.
C14_IndexModeResolvedOnce ==
    /\ [](/\ bot_pc # "start" =>
                /\ index_mode \in {"reload", "fresh"}
                /\ chroma_db # NoDb
          /\ index_mode = "reload" => embedded_docs = 0 /\ persist_calls = 0
          /\ index_mode = "fresh" =>
                /\ persist_calls = 1
                /\ embedded_docs = Len(texts)
                /\ chroma_db = texts
                /\ constructions = 1
          /\ constructions >= 2 /\ bot_pc # "start" => index_mode = "reload")
    /\ [][/\ (bot_pc = "start" /\ bot_pc' # "start") =>
                /\ index_mode' = IF chroma_db # NoDb THEN "reload" ELSE "fresh"
                /\ index_mode' = "reload" => chroma_db' = chroma_db
          /\ (bot_pc # "start" /\ bot_pc' # "start") =>
                UNCHANGED <<index_mode, embedded_docs, persist_calls,
                            chroma_db>>]_vars

\* the second construction, over the index the first one built and persisted
C14_Witness ==
    /\ constructions = 2
    /\ bot_pc = "idle"
    /\ index_mode = "reload"
    /\ chroma_db # OldDb
    /\ Len(chroma_db) >= 1

\* C15: no step of a get_response call changes contexts, responses, the
\* loaded conversations, the signature phrases or the vector index; the only
\* field it writes is last_message, in the update step.
C15_CallsOnlyWriteLastMessage ==
    [][(bot_pc # "start" /\ bot_pc' # "start") =>
          /\ UNCHANGED <<contexts, responses, self_conversations,
                         common_phrases, top_phrases, vector_store, texts,
                         chroma_db>>
          /\ self_last_message' # self_last_message => bot_pc = "update"]_vars

\* a direct-match call has returned after an earlier call that generated
C15_Witness ==
    /\ Returned
    /\ direct_matches # <<>>
    /\ last_message_at_call = AchaPadded
    /\ self_last_message # last_message_at_call

-----------------------------------------------------------------------------
(* Properties of the direct-match scan *)

FoldCase(s) == [i \in 1..Len(s) |-> LowerChar(s[i])]

\* the direct-match test as the claim states it
Qualifies(msg, context) ==
    /\ context # EmptyStr
    /\ \/ Occurs(FoldCase(context), FoldCase(msg))
       \/ Occurs(FoldCase(msg), FoldCase(context))
    /\ 2 * Cardinality(FoldedWords(msg) \cap FoldedWords(context)) >
          Larger(WordCount(msg), WordCount(context))

QualifyingPairs == {i \in 1..Len(contexts) : Qualifies(message_arg, contexts[i])}

\* the candidates are the responses of the qualifying pairs, in stored order
CandidatesAreQualifying ==
    LET Q == QualifyingPairs IN
    /\ Len(direct_matches) = Cardinality(Q)
    /\ \A k \in 1..Len(direct_matches) : direct_matches[k] = responses[Kth(Q, k)]

-----------------------------------------------------------------------------
(* Properties of construction *)

ContextColon ==
    <<"C","o","n","t","e","x","t",":"," ">>
ResponseColon ==
    <<"\n","R","e","s","p","o","n","s","e",":"," ">>

\* C18: after a construction in either mode, contexts and responses have one
\* entry per loaded pair with a non-empty response and none for the others, in
\* the order of the pairs, both entries of an index from the same pair; after
\* a fresh build the indexed text of index i is
\* "Context: {contexts[i]}\nResponse: {responses[i]}".
C18_ParallelArrays ==
    bot_pc # "start" =>
        LET kept == Answered IN
        /\ index_mode \in {"reload", "fresh"}
        /\ Len(contexts) = Cardinality(kept)
        /\ Len(responses) = Cardinality(kept)
        /\ \A k \in 1..Cardinality(kept) :
              /\ contexts[k] = self_conversations[Kth(kept, k)].context
              /\ responses[k] = self_conversations[Kth(kept, k)].response
        /\ index_mode = "fresh" =>
              /\ Len(texts) = Cardinality(kept)
              /\ vector_store = texts
              /\ \A k \in 1..Len(texts) :
                    texts[k] = ContextColon \o contexts[k] \o
                               ResponseColon \o responses[k]

\* a reload over a file that has a pair without a response before a pair
\* with one
C18_Witness ==
    /\ bot_pc = "idle"
    /\ index_mode = "reload"
    /\ Len(self_conversations) = 2
    /\ self_conversations[1].response = EmptyStr
    /\ Len(contexts) = 1

\* a fresh build over a file that has a pair without a response
C18_WitnessFresh ==
    /\ bot_pc = "idle"
    /\ index_mode = "fresh"
    /\ Len(self_conversations) = 2
    /\ Len(texts) = 1

-----------------------------------------------------------------------------
(* Properties of get_response: failures of the collaborators *)

EndedAfter(step) ==
    /\ bot_pc = "idle"
    /\ call_log # <<>>
    /\ call_log[Len(call_log)] = step

\* C19: a get_response call that the index query or the generator fails ends
\* with that error for its caller and returns no string; after an index
\* failure no generator call is made; last_message is what it was before the
\* call.  A string returned on the generator path is the trimmed output of
\* the generator.
C19_FailuresPropagate ==
    /\ EndedAfter("search") =>
          /\ result = Raised("IndexUnavailable")
          /\ gen_calls = 0
          /\ response = None
          /\ self_last_message = last_message_at_call
    /\ EndedAfter("generate") =>
          /\ result = Raised("GeneratorError")
          /\ response = None
          /\ self_last_message = last_message_at_call
    /\ (Returned /\ gen_calls = 1) =>
          /\ response \in GenOutputs
          /\ result = Trimmed(response)
    /\ (bot_pc = "idle" /\ IsRaised(result)) =>
          self_last_message = last_message_at_call

\* the generator failed in a call made after a call that had set last_message
C19_Witness ==
    /\ EndedAfter("generate")
    /\ result = Raised("GeneratorError")
    /\ last_message_at_call = AchaPadded
    /\ self_last_message = AchaPadded

-----------------------------------------------------------------------------
(* Properties of parse_whatsapp_chat: senders that contain the target *)

\* C17: a line that is not skipped and whose sender strictly contains the
\* target emits a pair with that line's message as the response, as a line
\* of the target does; a pair whose latest line before it came from such a
\* sender has an empty context.
C17_SenderContainingTarget ==
    LET info == LineInfo
        parsed == {i \in Processed : info[i].shaped /\ ~info[i].media}
        containing == {i \in parsed :
                          Occurs(info[i].sender, person_of_interest)}
        strictly == {i \in containing : info[i].sender # person_of_interest}
        Rank(i) == Cardinality({j \in containing : j <= i})
    IN  /\ Len(conversations) = Cardinality(containing)
        /\ \A i \in strictly :
              conversations[Rank(i)].response = info[i].message
        /\ \A i \in containing :
              (i - 1 \in strictly \/
               \E j \in strictly :
                   j < i /\ \A m \in (j + 1)..(i - 1) : m \notin parsed) =>
                  conversations[Rank(i)].context = EmptyStr

\* Alice, then Samantha, then Saman
C17_Witness ==
    /\ parse_pc = "returned"
    /\ person_of_interest = Saman
    /\ lines = <<LineAliceHi, LineSamantha, LineSamanHello>>
    /\ Len(conversations) = 2
    /\ conversations[1].context = HiThere
    /\ conversations[1].response = <<"y", "o">>
    /\ conversations[2].context = EmptyStr
    /\ conversations[2].response = Hello

-----------------------------------------------------------------------------
(* The two scripts in a row: the parser writes the conversation file, the   *)
(* chatbot is constructed from it and answers                                *)

LineAliceSpaces ==
    <<"t","9"," ","-"," ","A","l","i","c","e",":"," "," "," ">>

PipelineLinePool ==
    {LineAliceHi, LineSamanHello, LineSamanSpaces, LineAliceSpaces,
     LineIndented, LineBlank}

PipelineTranscripts == UNION {[1..n -> PipelineLinePool] : n \in 0..MaxLines}

PipelineMessages == {EmptyStr, Blank, HiThereLower}

InitPipeline ==
    /\ BotAbsent
    /\ lines \in PipelineTranscripts
    /\ person_of_interest = Saman
    /\ line_no = 1
    /\ conversations = ParseStart.conversations
    /\ last_message = ParseStart.last_message
    /\ last_sender = ParseStart.last_sender
    /\ message_count = ParseStart.message_count
    /\ parse_pc = "loop"

\* json.dump of the list of pairs and json.load of the file it wrote
SaveAndLoad(convs) ==
    [k \in 1..Len(convs) |->
        [context |-> convs[k].context, response |-> convs[k].response,
         timestamp |-> convs[k].timestamp]]

\* save_conversations writes saman_conversations.json, and the chat front
\* end is started on that file with no ./chroma_db
Handoff ==
    /\ parse_pc = "returned"
    /\ bot_pc = "absent"
    /\ conversation_file' = SaveAndLoad(conversations)
    /\ chroma_db' = NoDb
    /\ bot_pc' = "start"
    /\ self_conversations' = None
    /\ contexts' = None
    /\ responses' = None
    /\ texts' = None
    /\ common_phrases' = None
    /\ top_phrases' = <<>>
    /\ vector_store' = None
    /\ self_last_message' = None
    /\ index_mode' = None
    /\ embedded_docs' = 0
    /\ persist_calls' = 0
    /\ constructions' = 0
    /\ UNCHANGED <<parseVars, callVars, simVars>>

NextPipeline ==
    \/ ParseNextLine
    \/ ParseReturn
    \/ Handoff
    \/ Construct
    \/ \E msg \in PipelineMessages : GetResponse(msg)
    \/ SearchIndex
    \/ SearchIndexFails
    \/ ScanContexts
    \/ ChooseDirectMatch
    \/ Generate
    \/ GenerateFails
    \/ UpdateLastMessage
    \/ ReturnResponse

SpecPipeline == InitPipeline /\ [][NextPipeline]_vars

\* the scan of the running or the last call computes the ratio for context i
RatioComputed(i) ==
    /\ contexts[i] # EmptyStr
    /\ \/ Occurs(FoldCase(contexts[i]), FoldCase(message_arg))
       \/ Occurs(FoldCase(message_arg), FoldCase(contexts[i]))

\* C20: with the stored contexts that parse_whatsapp_chat produces, the scan
\* of get_response never divides by zero for any message, the empty and the
\* blank one included: whenever the ratio is computed, the larger of the two
\* word counts is at least 1; the empty message passes the substring test
\* for every non-empty context, has ratio 0 and yields no candidate.
C20_ScanNeverDividesByZero ==
    /\ result # Raised("ZeroDivisionError")
    /\ (bot_pc \in {"search", "scan", "decide", "update", "return", "idle"}
          /\ message_arg # None) =>
          /\ \A i \in 1..Len(contexts) :
                /\ RatioComputed(i) <=> ReachesDivision(message_arg, contexts[i])
                /\ RatioComputed(i) =>
                      /\ Denominator(message_arg, contexts[i]) >= 1
                      /\ Larger(WordCount(message_arg),
                                WordCount(contexts[i])) >= 1
          /\ message_arg = EmptyStr =>
                \A i \in 1..Len(contexts) :
                    contexts[i] # EmptyStr =>
                        /\ SubstringEitherWay(message_arg, contexts[i])
                        /\ Overlap(message_arg, contexts[i]) = 0
                        /\ ~IsDirectMatch(message_arg, contexts[i])
          /\ (message_arg = EmptyStr /\ Scanned) => direct_matches = <<>>

\* the blank message has been answered over a parsed context " hi", for
\* which the ratio is computed
C20_Witness ==
    /\ parse_pc = "returned"
    /\ Returned
    /\ message_arg = Blank
    /\ \E i \in 1..Len(contexts) :
          contexts[i] = <<" ", "h", "i">> /\ RatioComputed(i)
    /\ direct_matches = <<>>

\* the empty message has been answered over a parsed non-empty context
C20_WitnessEmpty ==
    /\ parse_pc = "returned"
    /\ Returned
    /\ message_arg = EmptyStr
    /\ \E i \in 1..Len(contexts) : RatioComputed(i)

====
